---- MODULE Spec2Model ----
(***************************************************************************)
(* Model of pysmartthings/api.py: the asynchronous client (class Api) and  *)
(* the synchronous client (class api_old): one authenticated request, its  *)
(* classification of the HTTP status, and the paged listing built on it.   *)
(*                                                                         *)
(* Python values are encoded as follows.  A dict is a function from keys   *)
(* to values (the empty dict is <<>>); a list is a sequence; a string that *)
(* is built by concatenation is the sequence of its parts; an optional     *)
(* value is a sequence of length 0 (None) or 1.                            *)
(***************************************************************************)
EXTENDS Integers, Sequences, FiniteSets, TLC

\* Longest listing the server holds, in pages.
MaxPages == 3
\* Number of items on a page that is not empty.
MaxItems == 2

API_BASE == "https://api.smartthings.com/v1/"
API_DEVICES == "devices"

Tokens == {"tokenA", "tokenB"}
Impls == {"Api", "api_old"}
Methods == {"get", "post"}
Statuses == {200, 302, 400, 401, 403, 404, 422, 429, 500, 503}

None == <<>>
Some(v) == <<v>>

\* dict.get(key) as an optional value
Get(d, k) == IF k \in DOMAIN d THEN Some(d[k]) ELSE None

\* Python truth value of an optional dict or string: None, {} and "" are false
Truthy(opt) == opt # None /\ opt[1] # <<>>

(***************************************************************************)
(* The server.  The k-th page of a listing is any document with or without *)
(* an `items` list and with any shape of `_links`; only pages before the   *)
(* last one of the listing can point to a following page.                  *)
(***************************************************************************)
Item(k, j) == [id |-> <<"d", ToString(k), ToString(j)>>]

Href(k) == <<API_BASE, API_DEVICES, "?page=", ToString(k)>>

ItemsParts(k) ==
  {<<>>} \cup {[items |-> [j \in 1..n |-> Item(k, j)]] : n \in {0, MaxItems}}

LinksParts(k) ==
  {<<>>,
   [_links |-> <<>>],
   [_links |-> [self |-> [href |-> Href(k)]]],
   [_links |-> [next |-> <<>>]],
   [_links |-> [next |-> [title |-> "next"]]]}
  \cup (IF k < MaxPages THEN {[_links |-> [next |-> [href |-> Href(k + 1)]]]}
                        ELSE {})

Pages(k) == {i @@ l : i \in ItemsParts(k), l \in LinksParts(k)}

ErrorDoc == [error |-> "rate_limited"]

InvalidBody == [valid |-> FALSE, doc |-> <<>>]

Bodies(s, k) ==
  {InvalidBody}
  \cup {[valid |-> TRUE, doc |-> d] : d \in (IF s = 200 THEN Pages(k) ELSE {ErrorDoc})}

\* What the server may answer to the k-th request of a listing
Replies(k) == UNION {{[status |-> s, body |-> b] : b \in Bodies(s, k)} : s \in Statuses}

(***************************************************************************)
(* One request                                                             *)
(***************************************************************************)
NoError == [cls |-> "", status |-> None, data |-> None, request_info |-> None]

Returned(v) == [ret |-> "return", value |-> v, err |-> NoError]
Raised(e) == [ret |-> "raise", value |-> None, err |-> e]

\* {"Authorization": "Bearer " + self._token}
BearerHeaders(tok) == [Authorization |-> <<"Bearer ", tok>>]

BuildRequest(method, url, prms, data, headers) ==
  [method |-> method, url |-> url, params |-> prms, json |-> data, headers |-> headers]

\* The transport: the response remembers the request it answers
\* (aiohttp's resp.request_info holds the url, the method and the request headers).
Respond(req, reply) ==
  [status |-> reply.status, body |-> reply.body,
   request_info |-> [method |-> req.method, url |-> req.url, headers |-> req.headers]]

\* resp.json(): the decoded document, or a failure to decode
Json(resp) ==
  IF resp.body.valid THEN Returned(Some(resp.body.doc))
  ELSE Raised([cls |-> "JSONDecodeError", status |-> None, data |-> None,
               request_info |-> None])

\* aiohttp's ClientResponse.raise_for_status: raises from 400 on, else returns None
raise_for_status(resp) ==
  IF resp.status >= 400
  THEN Raised([cls |-> "ClientResponseError", status |-> Some(resp.status),
               data |-> None, request_info |-> Some(resp.request_info)])
  ELSE Returned(None)

\* The body of Api.request once the response is there
Api_classify(resp) ==
  IF resp.status = 200 THEN Json(resp)
  ELSE IF resp.status \in {400, 422, 429, 500}
  THEN LET parsed == Json(resp)
           data == IF parsed.ret = "return" THEN parsed.value ELSE None
       IN  Raised([cls |-> "APIResponseError", status |-> Some(resp.status),
                   data |-> data, request_info |-> Some(resp.request_info)])
  ELSE raise_for_status(resp)

\* A client that keeps the header it built from its first token
Api_headers_captured(tok) == BearerHeaders("tokenA")

Api_headers(tok) == BearerHeaders(tok)

\* Api.request: the request sent and what the call gives its caller
Api_request(tok, method, url, prms, data, reply) ==
  LET req == BuildRequest(method, url, prms, data, Api_headers(tok))
  IN  [req |-> req, reply |-> reply, res |-> Api_classify(Respond(req, reply))]

\* The body of api_old._request once the response is there
api_old_classify(resp) ==
  IF resp.status < 400 THEN Json(resp)
  ELSE IF resp.status = 401
  THEN Raised([cls |-> "APIUnauthorizedError", status |-> None, data |-> None,
               request_info |-> None])
  ELSE IF resp.status = 403
  THEN Raised([cls |-> "APIForbiddenError", status |-> None, data |-> None,
               request_info |-> None])
  ELSE Raised([cls |-> "APIUnknownError", status |-> None, data |-> None,
               request_info |-> None])

\* api_old._request; `url` is optional, `resource` is used without it
api_old_request(headers, method, resource, data, prms, url, reply) ==
  LET target == IF Truthy(url) THEN url[1] ELSE <<API_BASE, resource>>
      req == BuildRequest(method, target, prms, data, headers)
  IN  [req |-> req, reply |-> reply, res |-> api_old_classify(Respond(req, reply))]

(***************************************************************************)
(* The next link of a page                                                 *)
(***************************************************************************)
\* A reader of the next link that looks for `href` directly under `_links`
get_next_link_flat(data) ==
  LET links == Get(data, "_links")
  IN  IF ~Truthy(links) THEN None ELSE Get(links[1], "href")

get_next_link(data) ==
  LET links == Get(data, "_links")
  IN  IF ~Truthy(links) THEN None
      ELSE LET next_link == Get(links[1], "next")
           IN  IF ~Truthy(next_link) THEN None
               ELSE Get(next_link[1], "href")

(***************************************************************************)
(* The paged listing.  A listing in progress is the record of the locals   *)
(* of get_items / _request_paged_list together with the way it ended.      *)
(***************************************************************************)
Fetching(its, nl) ==
  [pc |-> "paging", items |-> its, next_link |-> nl, outcome |-> "none",
   result |-> None, error |-> NoError]

Finished(v) ==
  [pc |-> "done", items |-> <<>>, next_link |-> None, outcome |-> "returned",
   result |-> Some(v), error |-> NoError]

Failed(e) ==
  [pc |-> "done", items |-> <<>>, next_link |-> None, outcome |-> "raised",
   result |-> None, error |-> e]

PyError(cls) == [cls |-> cls, status |-> None, data |-> None, request_info |-> None]

\* An accumulator that keeps only the latest page
Extend_replace(its, more) == more

\* list.extend
Extend(its, more) == its \o more

\* resp.get('items', [])
Api_items(resp) == IF "items" \in DOMAIN resp THEN resp["items"] ELSE <<>>

\* `while next_link:` and, when it is false, `return items`
Api_loop(its, nl) == IF Truthy(nl) THEN Fetching(its, nl) ELSE Finished(its)

\* Api.get_items from its first request to the loop test
Api_first_page(r) ==
  IF r.ret = "raise" THEN Failed(r.err)
  ELSE IF r.value = None THEN Failed(PyError("AttributeError"))
  ELSE LET resp == r.value[1]
       IN  Api_loop(Api_items(resp), get_next_link(resp))

\* A loop that swallows the failure of a page and returns what it has
Api_next_page_partial(its, r) ==
  IF r.ret = "raise" THEN Finished(its)
  ELSE IF r.value = None THEN Failed(PyError("AttributeError"))
  ELSE LET resp == r.value[1]
       IN  Api_loop(Extend(its, Api_items(resp)), get_next_link(resp))

\* One turn of the loop of Api.get_items
Api_next_page(its, r) ==
  IF r.ret = "raise" THEN Failed(r.err)
  ELSE IF r.value = None THEN Failed(PyError("AttributeError"))
  ELSE LET resp == r.value[1]
       IN  Api_loop(Extend(its, Api_items(resp)), get_next_link(resp))

\* `while next_link:` and, when it is false, `return {'items': items}`
api_old_loop(its, nl) ==
  IF Truthy(nl) THEN Fetching(its, nl) ELSE Finished([items |-> its])

\* api_old._request_paged_list from its first request to the loop test
api_old_first_page(r) ==
  IF r.ret = "raise" THEN Failed(r.err)
  ELSE LET response == r.value[1]
       IN  IF "items" \notin DOMAIN response THEN Failed(PyError("KeyError"))
           ELSE api_old_loop(response["items"], get_next_link(response))

\* One turn of the loop of api_old._request_paged_list
api_old_next_page(its, r) ==
  IF r.ret = "raise" THEN Failed(r.err)
  ELSE LET response == r.value[1]
       IN  IF "items" \notin DOMAIN response THEN Failed(PyError("KeyError"))
           ELSE api_old_loop(Extend(its, response["items"]), get_next_link(response))

(***************************************************************************)
(* State                                                                   *)
(***************************************************************************)
VARIABLES
  token,            \* Api._token
  api_old_headers,  \* api_old._headers
  impl,             \* the client that runs the current listing
  params,           \* the `params` argument of the current listing
  fetch,            \* the listing: its locals and the way it ended
  reqLog,           \* the requests the current listing has sent, in order
  replies,          \* the server's answers to them, in order
  last              \* the latest call of request / _request

vars == <<token, api_old_headers, impl, params, fetch, reqLog, replies, last>>

ParamChoices == {None, Some([capability |-> "switch"])}

NoCall ==
  [impl |-> "",
   req |-> BuildRequest("", <<>>, None, None, [Authorization |-> <<>>]),
   reply |-> [status |-> 0, body |-> InvalidBody],
   res |-> Returned(None)]

Idle ==
  [pc |-> "idle", items |-> <<>>, next_link |-> None, outcome |-> "none",
   result |-> None, error |-> NoError]

\* Api.__init__ and api_old.__init__
Init ==
  /\ token \in Tokens
  /\ api_old_headers \in {BearerHeaders(t) : t \in Tokens}
  /\ impl = ""
  /\ params = None
  /\ fetch = Idle
  /\ reqLog = <<>>
  /\ replies = <<>>
  /\ last = NoCall

\* The page of the listing a URL names
PageIndex(url) ==
  IF \E k \in 1..MaxPages : url = Href(k)
  THEN CHOOSE k \in 1..MaxPages : url = Href(k)
  ELSE 1

\* Api.token (setter)
SetToken(t) ==
  /\ t # token
  /\ token' = t
  /\ UNCHANGED <<api_old_headers, impl, params, fetch, reqLog, replies, last>>

\* Api.get: one request for a single resource
ApiGet(prms, reply) ==
  /\ fetch.pc = "idle"
  /\ LET call == Api_request(token, "get", <<API_BASE, API_DEVICES>>, prms, None, reply)
     IN  last' = [impl |-> "Api"] @@ call
  /\ UNCHANGED <<token, api_old_headers, impl, params, fetch, reqLog, replies>>

\* api_old.get_device and the other single calls of api_old._request
OldRequest(method, reply) ==
  /\ fetch.pc = "idle"
  /\ LET call == api_old_request(api_old_headers, method, API_DEVICES, None, None,
                                 None, reply)
     IN  last' = [impl |-> "api_old"] @@ call
  /\ UNCHANGED <<token, api_old_headers, impl, params, fetch, reqLog, replies>>

\* Api.get_items up to the end of its first page
ApiGetItems(prms, reply) ==
  /\ fetch.pc = "idle"
  /\ LET call == Api_request(token, "get", <<API_BASE, API_DEVICES>>, prms, None, reply)
     IN  /\ last' = [impl |-> "Api"] @@ call
         /\ reqLog' = <<call.req>>
         /\ fetch' = Api_first_page(call.res)
  /\ replies' = <<reply>>
  /\ impl' = "Api"
  /\ params' = prms
  /\ UNCHANGED <<token, api_old_headers>>

\* Api.get_items: one more page
ApiNextPage ==
  /\ fetch.pc = "paging"
  /\ impl = "Api"
  /\ \E reply \in Replies(PageIndex(fetch.next_link[1])) :
       /\ LET call == Api_request(token, "get", fetch.next_link[1], params, None, reply)
          IN  /\ last' = [impl |-> "Api"] @@ call
              /\ reqLog' = Append(reqLog, call.req)
              /\ fetch' = Api_next_page(fetch.items, call.res)
       /\ replies' = Append(replies, reply)
  /\ UNCHANGED <<token, api_old_headers, impl, params>>

\* api_old._request_paged_list up to the end of its first page
OldPagedList(prms, reply) ==
  /\ fetch.pc = "idle"
  /\ LET call == api_old_request(api_old_headers, "get", API_DEVICES, None, prms,
                                 None, reply)
     IN  /\ last' = [impl |-> "api_old"] @@ call
         /\ reqLog' = <<call.req>>
         /\ fetch' = api_old_first_page(call.res)
  /\ replies' = <<reply>>
  /\ impl' = "api_old"
  /\ params' = prms
  /\ UNCHANGED <<token, api_old_headers>>

\* api_old._request_paged_list: one more page
OldNextPage ==
  /\ fetch.pc = "paging"
  /\ impl = "api_old"
  /\ \E reply \in Replies(PageIndex(fetch.next_link[1])) :
       /\ LET call == api_old_request(api_old_headers, "get", None, None, params,
                                      fetch.next_link, reply)
          IN  /\ last' = [impl |-> "api_old"] @@ call
              /\ reqLog' = Append(reqLog, call.req)
              /\ fetch' = api_old_next_page(fetch.items, call.res)
       /\ replies' = Append(replies, reply)
  /\ UNCHANGED <<token, api_old_headers, impl, params>>

\* The listing hands its result or its error to the caller, and its locals go
Return ==
  /\ fetch.pc = "done"
  /\ fetch' = Idle
  /\ impl' = ""
  /\ params' = None
  /\ reqLog' = <<>>
  /\ replies' = <<>>
  /\ UNCHANGED <<token, api_old_headers, last>>

SingleDoc == [deviceId |-> "d1"]

SingleReplies ==
  {[status |-> s, body |-> b] :
     s \in Statuses,
     b \in {InvalidBody, [valid |-> TRUE, doc |-> SingleDoc]}}

Next ==
  \/ \E t \in Tokens : SetToken(t)
  \/ \E p \in ParamChoices, r \in SingleReplies : ApiGet(p, r)
  \/ \E m \in Methods, r \in SingleReplies : OldRequest(m, r)
  \/ \E p \in ParamChoices, r \in Replies(1) : ApiGetItems(p, r)
  \/ ApiNextPage
  \/ \E p \in ParamChoices, r \in Replies(1) : OldPagedList(p, r)
  \/ OldNextPage
  \/ Return

Spec == Init /\ [][Next]_vars

(***************************************************************************)
(* Vocabulary of the properties                                            *)
(***************************************************************************)
\* The kind of failure an exception class stands for
KindOf(err) ==
  CASE err.cls = "APIUnauthorizedError" -> "Unauthorized"
    [] err.cls = "APIForbiddenError" -> "Forbidden"
    [] err.cls = "APIResponseError" -> "RequestRejected"
    [] err.cls \in {"ClientResponseError", "APIUnknownError"} -> "Unknown"
    [] err.cls = "JSONDecodeError" -> "DecodeFailure"
    [] OTHER -> "NotAnApiError"

NPages == Len(replies)

\* A listing is in progress or has just ended
InListing == fetch.pc \in {"paging", "done"}

\* The server answered the i-th request of the listing with a page
IsPage(i) == replies[i].status = 200 /\ replies[i].body.valid

AllRequestsSucceeded == \A i \in 1..NPages : IsPage(i)

PageDoc(i) == replies[i].body.doc

HasItems(d) == "items" \in DOMAIN d

ItemsOf(d) == IF HasItems(d) THEN d.items ELSE <<>>

HasHref(d) ==
  /\ "_links" \in DOMAIN d
  /\ "next" \in DOMAIN d._links
  /\ "href" \in DOMAIN d._links.next

HrefOf(d) == d._links.next.href

\* P1..Pn is a chain: every page but the last links to the next, the last links to none
IsChain ==
  /\ NPages >= 1
  /\ \A i \in 1..(NPages - 1) : HasHref(PageDoc(i))
  /\ ~HasHref(PageDoc(NPages))

RECURSIVE ConcatItems(_)
ConcatItems(n) == IF n = 0 THEN <<>> ELSE ConcatItems(n - 1) \o ItemsOf(PageDoc(n))

\* The items a finished listing gave its caller
ReturnedItems == IF impl = "Api" THEN fetch.result[1] ELSE fetch.result[1].items

(***************************************************************************)
(* C1.  When every request of a listing has succeeded and the pages served *)
(* form a chain P1..Pn, a listing that returns returns exactly             *)
(* items(P1) ++ ... ++ items(Pn), in page order, nothing dropped and       *)
(* nothing twice; and it does return whenever every page carries an        *)
(* `items` list.  Both clients.                                            *)
(***************************************************************************)
C1_Concatenation ==
  (fetch.pc = "done" /\ AllRequestsSucceeded /\ IsChain) =>
    /\ fetch.outcome = "returned" => ReturnedItems = ConcatItems(NPages)
    /\ (\A i \in 1..NPages : HasItems(PageDoc(i))) => fetch.outcome = "returned"

C1_Witness ==
  /\ fetch.pc = "done" /\ fetch.outcome = "returned"
  /\ impl = "api_old"
  /\ AllRequestsSucceeded /\ IsChain
  /\ NPages >= 2
  /\ Len(ItemsOf(PageDoc(1))) >= 1 /\ Len(ItemsOf(PageDoc(2))) >= 1
  /\ ReturnedItems = ConcatItems(NPages)

(***************************************************************************)
(* C2.  When a request of a listing fails, the listing ends with that very *)
(* error, returns nothing of what it had accumulated, and sends no further *)
(* request.  Both clients.                                                 *)
(***************************************************************************)
PageRequestFailed == InListing /\ last.res.ret = "raise"

C2_FailurePropagates ==
  /\ [](PageRequestFailed =>
          /\ fetch.pc = "done"
          /\ fetch.outcome = "raised"
          /\ fetch.error = last.res.err
          /\ fetch.result = None)
  /\ [][PageRequestFailed => Len(reqLog') <= Len(reqLog)]_vars

C2_Witness ==
  /\ PageRequestFailed
  /\ NPages >= 2
  /\ Len(ItemsOf(PageDoc(1))) >= 1
  /\ fetch.outcome = "raised"
  /\ fetch.error.cls = "APIResponseError"

(***************************************************************************)
(* C3.  The caller's params go with the first request of a listing only,   *)
(* which is made to base URL + path; every later request is made to the    *)
(* next link of the page before it, without params.                        *)
(***************************************************************************)
C3_ParamsOnFirstRequestOnly ==
  InListing =>
    /\ reqLog[1].url = <<API_BASE, API_DEVICES>>
    /\ reqLog[1].params = params
    /\ \A i \in 2..Len(reqLog) :
         /\ reqLog[i].url = HrefOf(PageDoc(i - 1))
         /\ reqLog[i].params = None

(***************************************************************************)
(* C4.  A status outside 2xx that is none of 400, 401, 403, 422, 429, 500  *)
(* makes the request fail with an error of kind Unknown that carries the   *)
(* status; the call returns no value.                                      *)
(***************************************************************************)
Called == last.impl \in Impls

C4_OtherStatusIsUnknown ==
  (/\ Called
   /\ last.reply.status \notin 200..299
   /\ last.reply.status \notin {400, 401, 403, 422, 429, 500}) =>
    /\ last.res.ret = "raise"
    /\ KindOf(last.res.err) = "Unknown"
    /\ last.res.err.status = Some(last.reply.status)

(***************************************************************************)
(* C5.  A page without `items` adds nothing to the result and does not     *)
(* make the listing fail: over a chain of pages, whether or not they carry *)
(* `items`, the listing returns the items of the pages that have them.     *)
(***************************************************************************)
C5_MissingItemsIsEmpty ==
  (fetch.pc = "done" /\ AllRequestsSucceeded /\ IsChain) =>
    /\ fetch.outcome = "returned"
    /\ ReturnedItems = ConcatItems(NPages)

(***************************************************************************)
(* C6.  Status 401 fails with kind Unauthorized and status 403 with kind   *)
(* Forbidden, each different from RequestRejected and from Unknown.        *)
(***************************************************************************)
C6_UnauthorizedAndForbidden ==
  Called =>
    /\ last.reply.status = 401 =>
         last.res.ret = "raise" /\ KindOf(last.res.err) = "Unauthorized"
    /\ last.reply.status = 403 =>
         last.res.ret = "raise" /\ KindOf(last.res.err) = "Forbidden"

(***************************************************************************)
(* C7.  For status 400, 422, 429 and 500, on either client, the request    *)
(* fails with kind RequestRejected; the error carries the decoded body     *)
(* when the body is valid JSON and no body when it is not.                 *)
(***************************************************************************)
C7_RequestRejectedWithBody ==
  (Called /\ last.reply.status \in {400, 422, 429, 500}) =>
    /\ last.res.ret = "raise"
    /\ KindOf(last.res.err) = "RequestRejected"
    /\ last.res.err.data =
         (IF last.reply.body.valid THEN Some(last.reply.body.doc) ELSE None)

(***************************************************************************)
(* C8.  After a page, Api.get_items asks for a further page exactly when   *)
(* the page carries _links.next.href, and asks at that address; when a     *)
(* level of the link is missing it sends nothing more, raises nothing and  *)
(* returns the items of the pages up to and including that one.            *)
(***************************************************************************)
GotPage == InListing /\ impl = "Api" /\ IsPage(NPages)

C8_FollowsNextLinkOnly ==
  /\ [](GotPage =>
          /\ HasHref(PageDoc(NPages)) <=> fetch.pc = "paging"
          /\ HasHref(PageDoc(NPages)) =>
               fetch.next_link = Some(HrefOf(PageDoc(NPages)))
          /\ ~HasHref(PageDoc(NPages)) =>
               /\ fetch.outcome = "returned"
               /\ ReturnedItems = ConcatItems(NPages))
  /\ [][(GotPage /\ Len(reqLog') > Len(reqLog)) =>
          /\ HasHref(PageDoc(NPages))
          /\ reqLog'[Len(reqLog')].url = HrefOf(PageDoc(NPages))]_vars
  /\ [][(GotPage /\ ~HasHref(PageDoc(NPages))) => Len(reqLog') <= Len(reqLog)]_vars

C8_Witness ==
  /\ GotPage
  /\ NPages >= 2
  /\ "_links" \in DOMAIN PageDoc(NPages)
  /\ "next" \in DOMAIN PageDoc(NPages)._links
  /\ ~HasHref(PageDoc(NPages))
  /\ fetch.outcome = "returned"
  /\ Len(ReturnedItems) >= 2

(***************************************************************************)
(* C9.  No error a request raises holds the bearer token: the value of the *)
(* Authorization header of the request is nowhere in the error.            *)
(***************************************************************************)
ErrorHoldsAuthorization(err, req) ==
  /\ err.request_info # None
  /\ "Authorization" \in DOMAIN err.request_info[1].headers
  /\ err.request_info[1].headers.Authorization = req.headers.Authorization

C9_NoTokenInError ==
  (Called /\ last.res.ret = "raise") => ~ErrorHoldsAuthorization(last.res.err, last.req)

(***************************************************************************)
(* C10.  Every request carries Authorization: Bearer <token> with the      *)
(* token the client holds when the request is sent: Api reads its token    *)
(* at each request, also between the pages of one listing; api_old sends   *)
(* the header it built from the token it was created with.                 *)
(***************************************************************************)
RequestSent == last' # last \/ Len(reqLog') > Len(reqLog)

C10_CurrentTokenInHeader ==
  /\ [][(RequestSent /\ last'.impl = "Api") =>
          last'.req.headers = [Authorization |-> <<"Bearer ", token>>]]_vars
  /\ [][(RequestSent /\ last'.impl = "api_old") =>
          last'.req.headers = api_old_headers]_vars
  /\ [][api_old_headers' = api_old_headers]_vars
  /\ [](\E t \in Tokens : api_old_headers = [Authorization |-> <<"Bearer ", t>>])

C10_Witness ==
  /\ fetch.pc = "paging"
  /\ impl = "Api"
  /\ Len(reqLog) = 2
  /\ reqLog[1].headers.Authorization = <<"Bearer ", "tokenA">>
  /\ reqLog[2].headers.Authorization = <<"Bearer ", "tokenB">>
  /\ token = "tokenB"

====
